---- MODULE Spec2Model ----
(***************************************************************************)
(* Model of the term algebra of src/internal/term.rs: a Term is a positive *)
(* or negative expression over a Range of versions.  Every method of Term  *)
(* is an operator computed as the code computes it; a caller applies the   *)
(* methods to inputs drawn from bounded sets and records each call in ret. *)
(***************************************************************************)
EXTENDS Naturals, Sequences, FiniteSets

\* Versions are 1..MaxVersion; evidence sequences hold at most MaxTerms terms.
MaxVersion == 2
MaxTerms == 2

Versions == 1..MaxVersion

\* Option<T>: None is the empty sequence, Some(x) the one-element sequence.
None == << >>
Some(x) == << x >>

----------------------------------------------------------------------------
\* crate::range::Range, the external collaborator: a set of versions with
\* structural equality, forming a Boolean algebra.
Range == SUBSET Versions
Range_none == {}
Range_contains(r, v) == v \in r
Range_negate(r) == Versions \ r
Range_intersection(r1, r2) == r1 \cap r2
Range_union(r1, r2) == r1 \cup r2

----------------------------------------------------------------------------
\* enum Term<V> { Positive(Range<V>), Negative(Range<V>) }
Positive(r) == [positive |-> TRUE, range |-> r]
Negative(r) == [positive |-> FALSE, range |-> r]
Term == [positive : BOOLEAN, range : Range]

\* enum Relation
Relation == {"Satisfied", "Contradicted", "Inconclusive"}

OptionVersion == {None} \cup {Some(v) : v \in Versions}

is_positive(t) == t.positive

negate_keeps_sense(t) ==
    IF t.positive THEN Negative(t.range)
    ELSE Positive(Range_negate(t.range))

negate(t) ==
    IF t.positive THEN Negative(t.range)
    ELSE Positive(t.range)

accept_version(t, v) ==
    IF t.positive THEN Range_contains(t.range, v)
    ELSE ~Range_contains(t.range, v)

accept_optional_version(t, v_option) ==
    IF v_option = None THEN ~t.positive
    ELSE accept_version(t, v_option[1])

intersection_negatives_intersected(t1, t2) ==
    CASE t1.positive /\ t2.positive ->
           Positive(Range_intersection(t1.range, t2.range))
      [] t1.positive /\ ~t2.positive ->
           Positive(Range_intersection(t1.range, Range_negate(t2.range)))
      [] ~t1.positive /\ t2.positive ->
           Positive(Range_intersection(Range_negate(t1.range), t2.range))
      [] ~t1.positive /\ ~t2.positive ->
           Negative(Range_intersection(t1.range, t2.range))

intersection_mixed_unnegated(t1, t2) ==
    CASE t1.positive /\ t2.positive ->
           Positive(Range_intersection(t1.range, t2.range))
      [] t1.positive /\ ~t2.positive ->
           Positive(Range_intersection(t1.range, t2.range))
      [] ~t1.positive /\ t2.positive ->
           Positive(Range_intersection(Range_negate(t1.range), t2.range))
      [] ~t1.positive /\ ~t2.positive ->
           Negative(Range_union(t1.range, t2.range))

intersection(t1, t2) ==
    CASE t1.positive /\ t2.positive ->
           Positive(Range_intersection(t1.range, t2.range))
      [] t1.positive /\ ~t2.positive ->
           Positive(Range_intersection(t1.range, Range_negate(t2.range)))
      [] ~t1.positive /\ t2.positive ->
           Positive(Range_intersection(Range_negate(t1.range), t2.range))
      [] ~t1.positive /\ ~t2.positive ->
           Negative(Range_union(t1.range, t2.range))

union(t1, t2) == negate(intersection(negate(t1), negate(t2)))

\* all_terms.fold(acc, |acc, term| acc.intersection(term)) from index i on
RECURSIVE fold_intersection(_, _, _)
fold_intersection(acc, all_terms, i) ==
    IF i > Len(all_terms) THEN acc
    ELSE fold_intersection(intersection(acc, all_terms[i]), all_terms, i + 1)

intersect_all(all_terms) ==
    IF all_terms = << >> THEN None
    ELSE Some(fold_intersection(all_terms[1], all_terms, 2))

subset_of_reversed(t, other) == other = intersection(t, other)

subset_of(t, other) == t = intersection(t, other)

satisfied_by_wrong_sentinel(t, terms_) ==
    LET all == intersect_all(terms_) IN
    IF all = None THEN t = Positive(Range_none)
    ELSE subset_of(all[1], t)

satisfied_by(t, terms_) ==
    LET all == intersect_all(terms_) IN
    IF all = None THEN t = Negative(Range_none)
    ELSE subset_of(all[1], t)

contradicted_by_tautology(t, terms_) ==
    LET all == intersect_all(terms_) IN
    IF all = None THEN t = Positive(Range_none)
    ELSE intersection(all[1], t) = Negative(Range_none)

contradicted_by(t, terms_) ==
    LET all == intersect_all(terms_) IN
    IF all = None THEN t = Positive(Range_none)
    ELSE intersection(all[1], t) = Positive(Range_none)

\* other_terms is None or Some(sequence of terms)
relation_with_contradiction_first(t, other_terms) ==
    LET folded == IF other_terms = None THEN None
                  ELSE intersect_all(other_terms[1])
        other_terms_intersection ==
            IF folded = None THEN Negative(Range_none) ELSE folded[1]
        full_intersection == intersection(t, other_terms_intersection)
    IN  IF full_intersection = Positive(Range_none) THEN "Contradicted"
        ELSE IF full_intersection = other_terms_intersection THEN "Satisfied"
        ELSE "Inconclusive"

relation_with_self_default(t, other_terms) ==
    LET folded == IF other_terms = None THEN None
                  ELSE intersect_all(other_terms[1])
        other_terms_intersection ==
            IF folded = None THEN t ELSE folded[1]
        full_intersection == intersection(t, other_terms_intersection)
    IN  IF full_intersection = other_terms_intersection THEN "Satisfied"
        ELSE IF full_intersection = Positive(Range_none) THEN "Contradicted"
        ELSE "Inconclusive"

relation_with(t, other_terms) ==
    LET folded == IF other_terms = None THEN None
                  ELSE intersect_all(other_terms[1])
        other_terms_intersection ==
            IF folded = None THEN Negative(Range_none) ELSE folded[1]
        full_intersection == intersection(t, other_terms_intersection)
    IN  IF full_intersection = other_terms_intersection THEN "Satisfied"
        ELSE IF full_intersection = Positive(Range_none) THEN "Contradicted"
        ELSE "Inconclusive"

----------------------------------------------------------------------------
\* The caller's state: the term under test, the evidence, and the pending
\* result of the call in progress (NoCall between calls).
VARIABLES self, terms, ret
vars == << self, terms, ret >>

RECURSIVE SeqsUpTo(_, _)
SeqsUpTo(S, n) ==
    IF n = 0 THEN { << >> }
    ELSE LET shorter == SeqsUpTo(S, n - 1) IN
         shorter \cup { Append(s, x) : s \in shorter, x \in S }

\* terms the caller can pass to the binary operations
Pool == {self} \cup { terms[i] : i \in 1..Len(terms) }

\* one record shape for every call; the fields a call does not use keep
\* their default
NoCall == [fn |-> "none", args |-> << >>, v_option |-> None, some |-> FALSE,
           term |-> None, bool |-> FALSE, rel |-> "none"]

Init ==
    /\ self \in Term
    /\ terms \in SeqsUpTo(Term, MaxTerms)
    /\ ret = NoCall

Call_is_positive ==
    /\ ret = NoCall
    /\ ret' = [NoCall EXCEPT !.fn = "is_positive", !.args = << self >>,
                             !.bool = is_positive(self)]
    /\ UNCHANGED << self, terms >>

Call_negate ==
    /\ ret = NoCall
    /\ \E t \in Pool :
        /\ ret' = [NoCall EXCEPT !.fn = "negate", !.args = << t >>,
                                 !.term = Some(negate(t))]
        /\ UNCHANGED << self, terms >>

Call_accept_version ==
    /\ ret = NoCall
    /\ \E v \in Versions :
        /\ ret' = [NoCall EXCEPT !.fn = "accept_version", !.args = << self >>,
                                 !.v_option = Some(v),
                                 !.bool = accept_version(self, v)]
        /\ UNCHANGED << self, terms >>

Call_accept_optional_version ==
    /\ ret = NoCall
    /\ \E v_option \in OptionVersion :
        /\ ret' = [NoCall EXCEPT !.fn = "accept_optional_version",
                                 !.args = << self >>,
                                 !.v_option = v_option,
                                 !.bool = accept_optional_version(self, v_option)]
        /\ UNCHANGED << self, terms >>

Call_intersection ==
    /\ ret = NoCall
    /\ \E t1 \in Pool, t2 \in Pool :
        /\ ret' = [NoCall EXCEPT !.fn = "intersection", !.args = << t1, t2 >>,
                                 !.term = Some(intersection(t1, t2))]
        /\ UNCHANGED << self, terms >>

Call_union ==
    /\ ret = NoCall
    /\ \E t1 \in Pool, t2 \in Pool :
        /\ ret' = [NoCall EXCEPT !.fn = "union", !.args = << t1, t2 >>,
                                 !.term = Some(union(t1, t2))]
        /\ UNCHANGED << self, terms >>

Call_intersect_all ==
    /\ ret = NoCall
    /\ ret' = [NoCall EXCEPT !.fn = "intersect_all",
                             !.term = intersect_all(terms)]
    /\ UNCHANGED << self, terms >>

Call_subset_of ==
    /\ ret = NoCall
    /\ \E t1 \in Pool, t2 \in Pool :
        /\ ret' = [NoCall EXCEPT !.fn = "subset_of", !.args = << t1, t2 >>,
                                 !.bool = subset_of(t1, t2)]
        /\ UNCHANGED << self, terms >>

Call_satisfied_by ==
    /\ ret = NoCall
    /\ ret' = [NoCall EXCEPT !.fn = "satisfied_by", !.args = << self >>,
                             !.bool = satisfied_by(self, terms)]
    /\ UNCHANGED << self, terms >>

Call_contradicted_by ==
    /\ ret = NoCall
    /\ ret' = [NoCall EXCEPT !.fn = "contradicted_by", !.args = << self >>,
                             !.bool = contradicted_by(self, terms)]
    /\ UNCHANGED << self, terms >>

Call_relation_with ==
    /\ ret = NoCall
    /\ \E some \in BOOLEAN :
        /\ ret' = [NoCall EXCEPT !.fn = "relation_with", !.args = << self >>,
                                 !.some = some,
                                 !.rel = relation_with(self,
                                            IF some THEN Some(terms) ELSE None)]
        /\ UNCHANGED << self, terms >>

\* the caller consumes the returned value before its next call
Consume ==
    /\ ret # NoCall
    /\ ret' = NoCall
    /\ UNCHANGED << self, terms >>

Next ==
    \/ Consume
    \/ Call_is_positive
    \/ Call_negate
    \/ Call_accept_version
    \/ Call_accept_optional_version
    \/ Call_intersection
    \/ Call_union
    \/ Call_intersect_all
    \/ Call_subset_of
    \/ Call_satisfied_by
    \/ Call_contradicted_by
    \/ Call_relation_with

Spec == Init /\ [][Next]_vars

TypeOK ==
    /\ self \in Term
    /\ Len(terms) <= MaxTerms
    /\ \A i \in 1..Len(terms) : terms[i] \in Term
    /\ ret.rel \in Relation \cup {"none"}
    /\ ret.bool \in BOOLEAN
    /\ ret.term \in {None} \cup {Some(t) : t \in Term}

----------------------------------------------------------------------------
\* Semantics used by the claims: a selection state is None or Some(v).
\* Every term of the evidence is true in selection state s.
AllTrue(S, s) == \A i \in 1..Len(S) : accept_optional_version(S[i], s)

\* t is true in every selection state where the evidence is true
Entails(S, t) ==
    \A s \in OptionVersion : AllTrue(S, s) => accept_optional_version(t, s)

\* t is false in every selection state where the evidence is true
Refutes(S, t) ==
    \A s \in OptionVersion : AllTrue(S, s) => ~accept_optional_version(t, s)

Satisfiable(S) == \E s \in OptionVersion : AllTrue(S, s)

----------------------------------------------------------------------------
\* C1 (as stated): with present, non-empty evidence, relation_with returns
\* Satisfied iff satisfied_by is true, Contradicted iff contradicted_by is
\* true, and Inconclusive otherwise.
C1_RelationAgreesWithPredicates ==
    (ret.fn = "relation_with" /\ ret.some /\ terms # << >>) =>
        /\ (ret.rel = "Satisfied") <=> satisfied_by(self, terms)
        /\ (ret.rel = "Contradicted") <=> contradicted_by(self, terms)
        /\ (ret.rel = "Inconclusive") <=>
               (~satisfied_by(self, terms) /\ ~contradicted_by(self, terms))

\* C1 (amended): with present, non-empty evidence, relation_with returns
\* Satisfied iff satisfied_by is true, Contradicted iff contradicted_by is
\* true and satisfied_by is false, and Inconclusive iff both are false.
C1_RelationAgreesSatisfiedFirst ==
    (ret.fn = "relation_with" /\ ret.some /\ terms # << >>) =>
        /\ (ret.rel = "Satisfied") <=> satisfied_by(self, terms)
        /\ (ret.rel = "Contradicted") <=>
               (contradicted_by(self, terms) /\ ~satisfied_by(self, terms))
        /\ (ret.rel = "Inconclusive") <=>
               (~satisfied_by(self, terms) /\ ~contradicted_by(self, terms))

\* relation_with has answered Contradicted on satisfiable non-empty evidence
C1_Witness ==
    /\ ret.fn = "relation_with" /\ ret.some /\ Len(terms) = 2
    /\ ret.rel = "Contradicted"
    /\ contradicted_by(self, terms) /\ ~satisfied_by(self, terms)

\* C2: satisfied_by decides entailment: its result is true iff self is
\* accepted in every selection state in which every evidence term is
\* accepted (empty evidence included).
C2_SatisfiedByIsEntailment ==
    (ret.fn = "satisfied_by") => (ret.bool <=> Entails(terms, self))

\* satisfied_by has answered true on two evidence terms of opposite sign,
\* neither of which entails self alone
C2_Witness ==
    /\ ret.fn = "satisfied_by" /\ ret.bool /\ Len(terms) = 2
    /\ terms[1].positive /\ ~terms[2].positive
    /\ ~Entails(<< terms[1] >>, self) /\ ~Entails(<< terms[2] >>, self)
    /\ Satisfiable(terms)

\* C3 (as stated): relation_with(t, Some(S)) returns Contradicted iff t is
\* rejected in every selection state in which every term of S is accepted.
C3_ContradictedIffRefuted ==
    (ret.fn = "relation_with" /\ ret.some) =>
        ((ret.rel = "Contradicted") <=> Refutes(terms, self))

\* C3 (amended): relation_with(t, Some(S)) returns Contradicted iff some
\* selection state accepts every term of S and t is rejected in every such
\* state.
C3_ContradictedIffRefutedAndSatisfiable ==
    (ret.fn = "relation_with" /\ ret.some) =>
        ((ret.rel = "Contradicted") <=>
            (Satisfiable(terms) /\ Refutes(terms, self)))

\* relation_with has answered Contradicted for a negative self
C3_Witness ==
    /\ ret.fn = "relation_with" /\ ret.some /\ terms # << >>
    /\ ret.rel = "Contradicted" /\ ~self.positive
    /\ Satisfiable(terms) /\ Refutes(terms, self)

\* C4: the result of intersection is accepted in a selection state iff both
\* operands are, and the result of union iff at least one operand is.
C4_TruthTables ==
    /\ (ret.fn = "intersection") =>
           \A s \in OptionVersion :
               accept_optional_version(ret.term[1], s) <=>
                   (accept_optional_version(ret.args[1], s)
                    /\ accept_optional_version(ret.args[2], s))
    /\ (ret.fn = "union") =>
           \A s \in OptionVersion :
               accept_optional_version(ret.term[1], s) <=>
                   (accept_optional_version(ret.args[1], s)
                    \/ accept_optional_version(ret.args[2], s))

\* intersection of two negative terms with different non-empty ranges
C4_Witness ==
    /\ ret.fn = "intersection"
    /\ ~ret.args[1].positive /\ ~ret.args[2].positive
    /\ ret.args[1].range # ret.args[2].range
    /\ ret.args[1].range # {} /\ ret.args[2].range # {}

\* C5: with empty evidence satisfied_by is true exactly for Negative(none())
\* and contradicted_by is true exactly for Positive(none()).
C5_EmptyEvidenceSentinels ==
    /\ (ret.fn = "satisfied_by" /\ terms = << >>) =>
           (ret.bool <=> self = Negative(Range_none))
    /\ (ret.fn = "contradicted_by" /\ terms = << >>) =>
           (ret.bool <=> self = Positive(Range_none))

\* satisfied_by has answered true on empty evidence
C5_Witness ==
    ret.fn = "satisfied_by" /\ terms = << >> /\ ret.bool

\* C6 (as stated): relation_with(Negative([1,2)), None) returns Satisfied.
C6_NegativeNoEvidenceSatisfied ==
    (ret.fn = "relation_with" /\ ~ret.some /\ self = Negative({1})) =>
        ret.rel = "Satisfied"

\* C6 (amended): relation_with(Negative([1,2)), None) returns Inconclusive.
C6_NegativeNoEvidenceInconclusive ==
    (ret.fn = "relation_with" /\ ~ret.some /\ self = Negative({1})) =>
        ret.rel = "Inconclusive"

\* relation_with has been called on Negative([1,2)) with no evidence
C6_Witness ==
    ret.fn = "relation_with" /\ ~ret.some /\ self = Negative({1})
    /\ ret.rel = "Inconclusive"

\* C7: intersection and union are commutative and associative, up to
\* structural equality of the resulting terms.
C7_CommutativeAssociative ==
    /\ (ret.fn = "intersection") =>
           /\ ret.term[1] = intersection(ret.args[2], ret.args[1])
           /\ \A t3 \in Pool :
                  intersection(ret.term[1], t3) =
                      intersection(ret.args[1], intersection(ret.args[2], t3))
    /\ (ret.fn = "union") =>
           /\ ret.term[1] = union(ret.args[2], ret.args[1])
           /\ \A t3 \in Pool :
                  union(ret.term[1], t3) =
                      union(ret.args[1], union(ret.args[2], t3))

\* union of a positive and a negative term, with a third distinct term at
\* hand for associativity
C7_Witness ==
    /\ ret.fn = "union"
    /\ ret.args[1].positive /\ ~ret.args[2].positive
    /\ ret.args[1].range # {} /\ ret.args[2].range # {}
    /\ \E t3 \in Pool : t3 # ret.args[1] /\ t3 # ret.args[2]

\* C8: a negated term evaluates to the opposite of the original in every
\* selection state (no version included) and for every version.
C8_NegateFlipsEvaluation ==
    (ret.fn = "negate") =>
        /\ \A s \in OptionVersion :
               accept_optional_version(ret.term[1], s) <=>
                   ~accept_optional_version(ret.args[1], s)
        /\ \A v \in Versions :
               accept_version(ret.term[1], v) <=>
                   ~accept_version(ret.args[1], v)

\* negate has been applied to a negative term with a proper non-empty range
C8_Witness ==
    /\ ret.fn = "negate" /\ ~ret.args[1].positive
    /\ ret.args[1].range # {} /\ ret.args[1].range # Versions

\* C9: relation_with gives the same answer for absent evidence and for
\* present-but-empty evidence: Satisfied iff self is Negative(none()),
\* Contradicted iff self is Positive(none()), Inconclusive otherwise.
C9_AbsentEqualsEmpty ==
    (ret.fn = "relation_with" /\ (~ret.some \/ terms = << >>)) =>
        /\ ret.rel = relation_with(self, None)
        /\ ret.rel = relation_with(self, Some(<< >>))
        /\ (ret.rel = "Satisfied") <=> (self = Negative(Range_none))
        /\ (ret.rel = "Contradicted") <=> (self = Positive(Range_none))
        /\ (ret.rel = "Inconclusive") <=>
               (self # Negative(Range_none) /\ self # Positive(Range_none))

\* relation_with has been called with present-but-empty evidence
C9_Witness ==
    /\ ret.fn = "relation_with" /\ ret.some /\ terms = << >>
    /\ ret.rel = "Satisfied"

\* C10: satisfied_by and contradicted_by are both true iff the evidence is
\* non-empty and folds to Positive(none()); never for empty evidence or for
\* evidence whose fold accepts some selection state.
C10_OverlapOnlyOnUnsatisfiable ==
    LET both ==
            /\ IF ret.fn = "satisfied_by" THEN ret.bool
               ELSE satisfied_by(self, terms)
            /\ IF ret.fn = "contradicted_by" THEN ret.bool
               ELSE contradicted_by(self, terms)
        folded == intersect_all(terms)
    IN  (ret.fn \in {"satisfied_by", "contradicted_by"}) =>
            /\ both <=> (terms # << >> /\ folded = Some(Positive(Range_none)))
            /\ (terms = << >>) => ~both
            /\ (terms # << >>
                /\ \E s \in OptionVersion :
                       accept_optional_version(folded[1], s)) => ~both

\* contradicted_by has answered true on evidence that folds to
\* Positive(none()) although no single evidence term is Positive(none())
C10_Witness ==
    /\ ret.fn = "contradicted_by" /\ ret.bool /\ Len(terms) = 2
    /\ satisfied_by(self, terms)
    /\ terms[1] # Positive(Range_none) /\ terms[2] # Positive(Range_none)
    /\ intersect_all(terms) = Some(Positive(Range_none))

====
